---- MODULE Spec2Model ----
(***************************************************************************)
(* In-place construction and reconstruction of the dynamically sized file  *)
(* info records of uefi/src/proto/media/file/info.rs: FileInfo,            *)
(* FileSystemInfo and FileSystemVolumeLabel.  Memory is an array of bytes; *)
(* a record is a fixed header followed by a null-terminated UCS-2 name.    *)
(***************************************************************************)
EXTENDS Integers, Sequences, FiniteSets

(***************************************************************************)
(* Bounds of the model.                                                    *)
(***************************************************************************)
\* largest base address of a storage buffer (addresses 0..MaxBase cover
\* every residue modulo the largest alignment, 8)
MaxBase == 7
\* largest length of a storage buffer, in bytes
MaxBufLen == 112
\* longest of the enumerated short names, in code units without terminator
MaxNameLen == 1

MemSize == MaxBase + MaxBufLen

Addrs == 0 .. (MemSize - 1)

(***************************************************************************)
(* Byte level helpers: little-endian integers and UCS-2 code units.        *)
(***************************************************************************)
RECURSIVE to_le_bytes(_, _)
\* the n low bytes of v, least significant first
to_le_bytes(v, n) ==
    IF n = 0 THEN <<>> ELSE <<v % 256>> \o to_le_bytes(v \div 256, n - 1)

RECURSIVE from_le_bytes(_)
\* the integer a little-endian byte sequence encodes
from_le_bytes(bs) ==
    IF bs = <<>> THEN 0 ELSE Head(bs) + 256 * from_le_bytes(Tail(bs))

RECURSIVE units_to_bytes(_)
\* the bytes of a slice of Char16 (two bytes per code unit)
units_to_bytes(us) ==
    IF us = <<>> THEN <<>>
    ELSE to_le_bytes(Head(us), 2) \o units_to_bytes(Tail(us))

\* the n bytes of memory m starting at address a
read_bytes(m, a, n) == [i \in 1 .. n |-> m[a + i - 1]]

\* the Char16 stored at address a
read_unit(m, a) == from_le_bytes(read_bytes(m, a, 2))

\* a write is [addr, bytes]; memory after the write
apply_write(m, w) ==
    [a \in DOMAIN m |->
        IF a >= w.addr /\ a < w.addr + Len(w.bytes)
        THEN w.bytes[a - w.addr + 1] ELSE m[a]]

RECURSIVE apply_writes(_, _)
\* memory after a sequence of writes, in order
apply_writes(m, ws) ==
    IF ws = <<>> THEN m ELSE apply_writes(apply_write(m, Head(ws)), Tail(ws))

\* the addresses a sequence of writes stores to
write_addrs(ws) ==
    UNION {ws[i].addr .. (ws[i].addr + Len(ws[i].bytes) - 1) : i \in DOMAIN ws}

(***************************************************************************)
(* CStr16: a sequence of non-null code units; the terminator is implicit.  *)
(***************************************************************************)
\* name.as_slice_with_nul()
as_slice_with_nul(name) == name \o <<0>>

RECURSIVE CStr16_from_ptr(_, _)
\* CStr16::from_ptr: the code units from address p up to the first null
\* unit.  The scan of a string that has no terminator leaves the memory
\* of the model; it is stopped there.
CStr16_from_ptr(m, p) ==
    IF p + 1 >= MemSize \/ read_unit(m, p) = 0 THEN <<>>
    ELSE <<read_unit(m, p)>> \o CStr16_from_ptr(m, p + 2)

(***************************************************************************)
(* The three record kinds and their layout.                                *)
(***************************************************************************)
Kinds == {"FileInfo", "FileSystemInfo", "FileSystemVolumeLabel"}

\* Align::alignment() of each kind
alignment(k) ==
    CASE k = "FileInfo" -> 8
      [] k = "FileSystemInfo" -> 8
      [] k = "FileSystemVolumeLabel" -> 2

\* InfoInternal::name_offset() of each kind
name_offset(k) ==
    CASE k = "FileInfo" -> 80
      [] k = "FileSystemInfo" -> 36
      [] k = "FileSystemVolumeLabel" -> 0

\* Align::offset_up_to_alignment
offset_up_to_alignment(k, val) ==
    LET r == val % alignment(k) IN IF r = 0 THEN 0 ELSE alignment(k) - r

\* Align::round_up_to_alignment
round_up_to_alignment(k, val) == val + offset_up_to_alignment(k, val)

\* Align::align_buf: the sub-slice that starts at the first aligned
\* address, None when the buffer ends before it
align_buf(k, b, l) ==
    LET offset == offset_up_to_alignment(k, b) IN
    IF offset > l THEN [some |-> FALSE, base |-> 0, len |-> 0]
    ELSE [some |-> TRUE, base |-> b + offset, len |-> l - offset]

\* size_of_val of a record whose slice metadata is meta: the offset of the
\* trailing slice plus its elements, padded to the alignment of the struct
size_of_val(k, meta) ==
    LET unpadded == name_offset(k) + 2 * meta IN
    CHOOSE s \in unpadded .. (unpadded + alignment(k) - 1) : s % alignment(k) = 0

\* size of the Time struct, a header field of FileInfo
TimeSize == 16

\* field offsets of #[repr(C)] struct FileInfo
FileInfo_size == 0
FileInfo_file_size == 8
FileInfo_physical_size == 16
FileInfo_create_time == 24
FileInfo_last_access_time == 40
FileInfo_modification_time == 56
FileInfo_attribute == 72

\* field offsets of #[repr(C)] struct FileSystemInfo
FileSystemInfo_size == 0
FileSystemInfo_read_only == 8
FileSystemInfo_volume_size == 16
FileSystemInfo_free_space == 24
FileSystemInfo_block_size == 32

\* InfoInternal::name_ptr
name_ptr(k, ptr) == ptr + name_offset(k)

(***************************************************************************)
(* Inputs of the constructors.                                             *)
(***************************************************************************)
\* the names of the unit tests: "test_name" and "test_name2"
TestName1 == <<116, 101, 115, 116, 95, 110, 97, 109, 101>>
TestName2 == <<116, 101, 115, 116, 95, 110, 97, 109, 101, 50>>

\* code units of the enumerated short names: one with a zero high byte and
\* one with a zero low byte
NameUnits == {1, 256}

ShortNames == UNION {[1 .. n -> NameUnits] : n \in 0 .. MaxNameLen}

Names == ShortNames \cup {TestName1, TestName2}

\* a Time value as its 16 bytes: year, month 1, day 1, 00:00:00, pad,
\* nanosecond 0, unspecified time zone (0x07FF), daylight flags, pad
MkTime(year, daylight) ==
    to_le_bytes(year, 2) \o <<1, 1, 0, 0, 0, 0>> \o to_le_bytes(0, 4)
        \o to_le_bytes(2047, 2) \o <<daylight, 0>>

\* the field values of the unit tests, and a second set whose values
\* differ from field to field and span several bytes
TestArgs ==
    [file_size |-> 123, physical_size |-> 456,
     create_time |-> MkTime(1970, 2), last_access_time |-> MkTime(1971, 2),
     modification_time |-> MkTime(1972, 2), attribute |-> 1,
     read_only |-> TRUE, volume_size |-> 123, free_space |-> 456,
     block_size |-> 789]

OtherArgs ==
    [file_size |-> 66051, physical_size |-> 16909060,
     create_time |-> MkTime(2024, 0), last_access_time |-> MkTime(2025, 1),
     modification_time |-> MkTime(2026, 3), attribute |-> 16,
     read_only |-> FALSE, volume_size |-> 70000, free_space |-> 258,
     block_size |-> 16777217]

ArgSets == {TestArgs, OtherArgs}

\* the content of the buffer before the call: zeroed as in the tests, or
\* non-zero garbage
FillBytes == {0, 170}

Bases == 0 .. MaxBase

BufLens == 0 .. MaxBufLen

(***************************************************************************)
(* The header initialisers passed to new_impl by new().                    *)
(***************************************************************************)
\* mutant: the volume_size and free_space stores are swapped
FileSystemInfo_new_init_swapped(ptr, size, a) ==
    << [addr |-> ptr + FileSystemInfo_size, bytes |-> to_le_bytes(size, 8)],
       [addr |-> ptr + FileSystemInfo_read_only,
        bytes |-> <<IF a.read_only THEN 1 ELSE 0>>],
       [addr |-> ptr + FileSystemInfo_volume_size,
        bytes |-> to_le_bytes(a.free_space, 8)],
       [addr |-> ptr + FileSystemInfo_free_space,
        bytes |-> to_le_bytes(a.volume_size, 8)],
       [addr |-> ptr + FileSystemInfo_block_size,
        bytes |-> to_le_bytes(a.block_size, 4)] >>

\* mutant: the size field receives the file size
FileInfo_new_init_wrong_size(ptr, size, a) ==
    << [addr |-> ptr + FileInfo_size, bytes |-> to_le_bytes(a.file_size, 8)],
       [addr |-> ptr + FileInfo_file_size, bytes |-> to_le_bytes(a.file_size, 8)],
       [addr |-> ptr + FileInfo_physical_size,
        bytes |-> to_le_bytes(a.physical_size, 8)],
       [addr |-> ptr + FileInfo_create_time, bytes |-> a.create_time],
       [addr |-> ptr + FileInfo_last_access_time, bytes |-> a.last_access_time],
       [addr |-> ptr + FileInfo_modification_time,
        bytes |-> a.modification_time],
       [addr |-> ptr + FileInfo_attribute, bytes |-> to_le_bytes(a.attribute, 8)] >>

\* the closure of FileInfo::new: one store per header field
FileInfo_new_init(ptr, size, a) ==
    << [addr |-> ptr + FileInfo_size, bytes |-> to_le_bytes(size, 8)],
       [addr |-> ptr + FileInfo_file_size, bytes |-> to_le_bytes(a.file_size, 8)],
       [addr |-> ptr + FileInfo_physical_size,
        bytes |-> to_le_bytes(a.physical_size, 8)],
       [addr |-> ptr + FileInfo_create_time, bytes |-> a.create_time],
       [addr |-> ptr + FileInfo_last_access_time, bytes |-> a.last_access_time],
       [addr |-> ptr + FileInfo_modification_time,
        bytes |-> a.modification_time],
       [addr |-> ptr + FileInfo_attribute, bytes |-> to_le_bytes(a.attribute, 8)] >>

\* the closure of FileSystemInfo::new
FileSystemInfo_new_init(ptr, size, a) ==
    << [addr |-> ptr + FileSystemInfo_size, bytes |-> to_le_bytes(size, 8)],
       [addr |-> ptr + FileSystemInfo_read_only,
        bytes |-> <<IF a.read_only THEN 1 ELSE 0>>],
       [addr |-> ptr + FileSystemInfo_volume_size,
        bytes |-> to_le_bytes(a.volume_size, 8)],
       [addr |-> ptr + FileSystemInfo_free_space,
        bytes |-> to_le_bytes(a.free_space, 8)],
       [addr |-> ptr + FileSystemInfo_block_size,
        bytes |-> to_le_bytes(a.block_size, 4)] >>

\* the closure of FileSystemVolumeLabel::new: |_ptr, _size| {}
FileSystemVolumeLabel_new_init(ptr, size, a) == <<>>

\* init(info_ptr, info_size) for the kind whose new() made the call
init(k, ptr, size, a) ==
    CASE k = "FileInfo" -> FileInfo_new_init(ptr, size, a)
      [] k = "FileSystemInfo" -> FileSystemInfo_new_init(ptr, size, a)
      [] k = "FileSystemVolumeLabel" -> FileSystemVolumeLabel_new_init(ptr, size, a)

(***************************************************************************)
(* The read accessors, on a record at address ptr of memory m.             *)
(***************************************************************************)
\* the private size field of FileInfo and of FileSystemInfo
FileInfo_get_size(m, ptr) == from_le_bytes(read_bytes(m, ptr + FileInfo_size, 8))

FileSystemInfo_get_size(m, ptr) ==
    from_le_bytes(read_bytes(m, ptr + FileSystemInfo_size, 8))

file_size(m, ptr) == from_le_bytes(read_bytes(m, ptr + FileInfo_file_size, 8))

physical_size(m, ptr) ==
    from_le_bytes(read_bytes(m, ptr + FileInfo_physical_size, 8))

create_time(m, ptr) == read_bytes(m, ptr + FileInfo_create_time, TimeSize)

last_access_time(m, ptr) ==
    read_bytes(m, ptr + FileInfo_last_access_time, TimeSize)

modification_time(m, ptr) ==
    read_bytes(m, ptr + FileInfo_modification_time, TimeSize)

attribute(m, ptr) == from_le_bytes(read_bytes(m, ptr + FileInfo_attribute, 8))

\* FileInfo::file_name
file_name(m, ptr) == CStr16_from_ptr(m, ptr + name_offset("FileInfo"))

read_only(m, ptr) == m[ptr + FileSystemInfo_read_only] # 0

volume_size(m, ptr) ==
    from_le_bytes(read_bytes(m, ptr + FileSystemInfo_volume_size, 8))

free_space(m, ptr) ==
    from_le_bytes(read_bytes(m, ptr + FileSystemInfo_free_space, 8))

block_size(m, ptr) ==
    from_le_bytes(read_bytes(m, ptr + FileSystemInfo_block_size, 4))

\* FileSystemInfo::volume_label
FileSystemInfo_volume_label(m, ptr) ==
    CStr16_from_ptr(m, ptr + name_offset("FileSystemInfo"))

\* FileSystemVolumeLabel::volume_label
FileSystemVolumeLabel_volume_label(m, ptr) ==
    CStr16_from_ptr(m, ptr + name_offset("FileSystemVolumeLabel"))

(***************************************************************************)
(* new_impl, in the order of its statements.                               *)
(***************************************************************************)
\* name.as_slice_with_nul().len()
name_length_ucs2(name) == Len(as_slice_with_nul(name))

\* size_of_val(name.as_slice_with_nul())
name_size(name) == 2 * Len(as_slice_with_nul(name))

\* mutant: the size is not rounded up to the alignment
new_impl_info_size_unrounded(k, name) == name_offset(k) + name_size(name)

\* the final size of the struct
new_impl_info_size(k, name) ==
    round_up_to_alignment(k, name_offset(k) + name_size(name))

\* mutant: the capacity of the aligned storage is not tested
new_impl_storage_no_size_check(k, b, l, name) ==
    LET info_size == new_impl_info_size(k, name)
        storage == align_buf(k, b, l)
    IN  IF ~storage.some
        THEN [ok |-> FALSE, ptr |-> 0, n |-> info_size]
        ELSE [ok |-> TRUE, ptr |-> storage.base, n |-> info_size]

\* mutant: a buffer of exactly the final size is refused
new_impl_storage_le(k, b, l, name) ==
    LET info_size == new_impl_info_size(k, name)
        storage == align_buf(k, b, l)
    IN  IF ~storage.some \/ storage.len <= info_size
        THEN [ok |-> FALSE, ptr |-> 0, n |-> info_size]
        ELSE [ok |-> TRUE, ptr |-> storage.base, n |-> info_size]

\* mutant: the length of the buffer is tested before it is trimmed
new_impl_storage_untrimmed(k, b, l, name) ==
    LET info_size == new_impl_info_size(k, name)
        storage == align_buf(k, b, l)
    IN  IF ~storage.some \/ l < info_size
        THEN [ok |-> FALSE, ptr |-> 0, n |-> info_size]
        ELSE [ok |-> TRUE, ptr |-> storage.base, n |-> info_size]

\* mutant: the error carries the number of missing bytes
new_impl_storage_missing(k, b, l, name) ==
    LET info_size == new_impl_info_size(k, name)
        storage == align_buf(k, b, l)
    IN  IF ~storage.some \/ storage.len < info_size
        THEN [ok |-> FALSE, ptr |-> 0,
              n |-> info_size - (IF storage.some THEN storage.len ELSE 0)]
        ELSE [ok |-> TRUE, ptr |-> storage.base, n |-> info_size]

\* the alignment and the size check of the storage: the base of the record
\* on success, InsufficientStorage(n) otherwise
new_impl_storage(k, b, l, name) ==
    LET info_size == new_impl_info_size(k, name)
        storage == align_buf(k, b, l)
    IN  IF ~storage.some \/ storage.len < info_size
        THEN [ok |-> FALSE, ptr |-> 0, n |-> info_size]
        ELSE [ok |-> TRUE, ptr |-> storage.base, n |-> info_size]

\* mutant: one code unit too many is copied
new_impl_copy_extra(k, ptr, name) ==
    [addr |-> name_ptr(k, ptr),
     bytes |-> units_to_bytes(as_slice_with_nul(name) \o <<0>>)]

\* mutant: the terminator is not copied
new_impl_copy_no_nul(k, ptr, name) ==
    [addr |-> name_ptr(k, ptr), bytes |-> units_to_bytes(name)]

\* ptr::copy(name.as_ptr(), info_name_ptr, name_length_ucs2)
new_impl_copy(k, ptr, name) ==
    [addr |-> name_ptr(k, ptr),
     bytes |-> units_to_bytes(
                   SubSeq(as_slice_with_nul(name), 1, name_length_ucs2(name)))]

(***************************************************************************)
(* from_uefi: the fat reference rebuilt from the base address.             *)
(***************************************************************************)
\* mutant: the name is scanned from the base of the record
from_uefi_no_offset(m, k, ptr) ==
    [ptr |-> ptr, meta |-> Len(as_slice_with_nul(CStr16_from_ptr(m, ptr)))]

\* mutant: the metadata leaves the terminator out
from_uefi_no_nul(m, k, ptr) ==
    [ptr |-> ptr, meta |-> Len(CStr16_from_ptr(m, name_ptr(k, ptr)))]

from_uefi(m, k, ptr) ==
    LET name == CStr16_from_ptr(m, name_ptr(k, ptr))
        name_len == Len(as_slice_with_nul(name))
    IN  [ptr |-> ptr, meta |-> name_len]

(***************************************************************************)
(* State.                                                                  *)
(***************************************************************************)
VARIABLES
    kind,       \* the record kind whose new() is called
    name,       \* the CStr16 name argument
    args,       \* the header field arguments
    base,       \* address of the first byte of the storage buffer
    len,        \* length of the storage buffer
    fill,       \* value of every byte of memory before the call
    mem,        \* the memory
    written,    \* the addresses the call has stored to
    events,     \* what the call has done so far, in order
    pc,         \* position: call, checked, header, done, failed, viewed
    info_ptr,   \* the raw fat pointer of new_impl: address and metadata
    ret,        \* what new() returned: Ok(ptr, meta) or Err(n)
    view,       \* the reference from_uefi returned
    retried     \* whether the call is the retry after a failure

vars == <<kind, name, args, base, len, fill, mem, written, events, pc,
          info_ptr, ret, view, retried>>

NoPtr == [ptr |-> 0, meta |-> 0]

NoRet == [tag |-> "None", ptr |-> 0, meta |-> 0, n |-> 0]

Init ==
    /\ kind \in Kinds
    /\ name \in Names
    \* FileSystemVolumeLabel::new takes no header field arguments
    /\ args \in IF kind = "FileSystemVolumeLabel" THEN {TestArgs} ELSE ArgSets
    /\ base \in Bases
    /\ len \in BufLens
    /\ fill \in FillBytes
    /\ mem = [a \in Addrs |-> fill]
    /\ written = {}
    /\ events = <<>>
    /\ pc = "call"
    /\ info_ptr = NoPtr
    /\ ret = NoRet
    /\ view = NoPtr
    /\ retried = FALSE

\* new_impl up to the size check: fails, or creates the raw fat pointer
NewCheck ==
    /\ pc = "call"
    /\ LET r == new_impl_storage(kind, base, len, name) IN
        IF r.ok
        THEN /\ pc' = "checked"
             /\ info_ptr' = [ptr |-> r.ptr, meta |-> name_length_ucs2(name)]
             /\ ret' = ret
        ELSE /\ pc' = "failed"
             /\ info_ptr' = info_ptr
             /\ ret' = [tag |-> "Err", ptr |-> 0, meta |-> 0, n |-> r.n]
    /\ UNCHANGED <<kind, name, args, base, len, fill, mem, written, events,
                   view, retried>>

\* init(info_ptr, info_size as u64)
NewInit ==
    /\ pc = "checked"
    /\ LET ws == init(kind, info_ptr.ptr, new_impl_info_size(kind, name), args) IN
        /\ mem' = apply_writes(mem, ws)
        /\ written' = written \cup write_addrs(ws)
    /\ events' = Append(events, "init")
    /\ pc' = "header"
    /\ UNCHANGED <<kind, name, args, base, len, fill, info_ptr, ret, view,
                   retried>>

\* the copy of the name, and the return of the reference
NewCopy ==
    /\ pc = "header"
    /\ LET w == new_impl_copy(kind, info_ptr.ptr, name) IN
        /\ mem' = apply_write(mem, w)
        /\ written' = written \cup write_addrs(<<w>>)
    /\ events' = Append(events, "copy")
    /\ ret' = [tag |-> "Ok", ptr |-> info_ptr.ptr, meta |-> info_ptr.meta,
               n |-> 0]
    /\ pc' = "done"
    /\ UNCHANGED <<kind, name, args, base, len, fill, info_ptr, view, retried>>

\* from_uefi on the base address of the record new() returned
FromUefi ==
    /\ pc = "done"
    /\ view' = from_uefi(mem, kind, ret.ptr)
    /\ pc' = "viewed"
    /\ UNCHANGED <<kind, name, args, base, len, fill, mem, written, events,
                   info_ptr, ret, retried>>

\* the caller retries a failed new() with the same arguments and a buffer
\* of the number of bytes the error names, at any address
Retry ==
    /\ pc = "failed"
    /\ ~retried
    /\ ret.n <= MaxBufLen
    /\ base' \in Bases
    /\ len' = ret.n
    /\ ret' = NoRet
    /\ retried' = TRUE
    /\ pc' = "call"
    /\ UNCHANGED <<kind, name, args, fill, mem, written, events, info_ptr,
                   view>>

Next == NewCheck \/ NewInit \/ NewCopy \/ FromUefi \/ Retry

Spec == Init /\ [][Next]_vars

(***************************************************************************)
(* Vocabulary of the properties.                                           *)
(***************************************************************************)
\* new() has returned Ok
Succeeded == pc \in {"done", "viewed"}

\* the smallest multiple of al that is >= x
RoundUp(x, al) == ((x + al - 1) \div al) * al

\* name_offset + 2 * (name_length + 1), and its value rounded up
RawSize == name_offset(kind) + 2 * (Len(name) + 1)

FinalSize == RoundUp(RawSize, alignment(kind))

\* bytes between the base of the buffer and the first aligned address
Misalign == base % alignment(kind)

Skip == IF Misalign = 0 THEN 0 ELSE alignment(kind) - Misalign

AlignedBase == base + Skip

\* number of code units before the first null unit at address a, -1 when
\* memory holds no null unit from a on
ScanCount(m, a) ==
    LET nuls == {n \in 0 .. MemSize :
                    a + 2 * n + 1 < MemSize /\ read_unit(m, a + 2 * n) = 0}
    IN  IF nuls = {} THEN -1
        ELSE CHOOSE n \in nuls : \A o \in nuls : n <= o

(***************************************************************************)
(* C1: whenever new() succeeds, every read accessor of the returned        *)
(* record returns the value supplied to new(), and the name accessor       *)
(* returns the supplied name without its terminator, for all three kinds.  *)
(***************************************************************************)
C1_RoundTrip ==
    Succeeded =>
        /\ kind = "FileInfo" =>
            /\ file_size(mem, ret.ptr) = args.file_size
            /\ physical_size(mem, ret.ptr) = args.physical_size
            /\ create_time(mem, ret.ptr) = args.create_time
            /\ last_access_time(mem, ret.ptr) = args.last_access_time
            /\ modification_time(mem, ret.ptr) = args.modification_time
            /\ attribute(mem, ret.ptr) = args.attribute
            /\ file_name(mem, ret.ptr) = name
        /\ kind = "FileSystemInfo" =>
            /\ read_only(mem, ret.ptr) = args.read_only
            /\ volume_size(mem, ret.ptr) = args.volume_size
            /\ free_space(mem, ret.ptr) = args.free_space
            /\ block_size(mem, ret.ptr) = args.block_size
            /\ FileSystemInfo_volume_label(mem, ret.ptr) = name
        /\ kind = "FileSystemVolumeLabel" =>
            FileSystemVolumeLabel_volume_label(mem, ret.ptr) = name

C1_Witness ==
    /\ pc = "done"
    /\ kind = "FileSystemInfo"
    /\ name = TestName2
    /\ args = OtherArgs
    /\ fill = 170
    /\ free_space(mem, ret.ptr) = 258

(***************************************************************************)
(* C2: an aligned buffer of exactly final_size bytes makes new() succeed;  *)
(* an aligned buffer of final_size - 1 bytes makes it fail with            *)
(* InsufficientStorage(final_size).                                        *)
(***************************************************************************)
C2_ExactFit ==
    (pc # "call" /\ Misalign = 0) =>
        /\ len = FinalSize => pc # "failed"
        /\ len = FinalSize - 1 =>
            /\ pc = "failed"
            /\ ret.tag = "Err"
            /\ ret.n = FinalSize

C2_Witness ==
    /\ pc = "done"
    /\ Misalign = 0
    /\ len = FinalSize
    /\ kind = "FileInfo"
    /\ name = TestName1

(***************************************************************************)
(* C3: the computed final size is the smallest multiple of the alignment   *)
(* that is >= the raw size: a multiple of the alignment, not below the raw *)
(* size, below raw size + alignment, the raw size itself when that is a    *)
(* multiple; 104 for FileInfo with a 9-unit name, 64 for FileSystemInfo    *)
(* with a 10-unit name, 2 * (name_length + 1) for FileSystemVolumeLabel.   *)
(***************************************************************************)
C3_FinalSize ==
    LET s == new_impl_info_size(kind, name)
        al == alignment(kind)
    IN  /\ s % al = 0
        /\ s >= RawSize
        /\ s < RawSize + al
        /\ RawSize % al = 0 => s = RawSize
        /\ (kind = "FileInfo" /\ Len(name) = 9) => s = 104
        /\ (kind = "FileSystemInfo" /\ Len(name) = 10) => s = 64
        /\ kind = "FileSystemVolumeLabel" => s = 2 * (Len(name) + 1)
        /\ pc = "failed" => ret.n = s

C3_Witness ==
    /\ pc = "failed"
    /\ kind = "FileInfo"
    /\ name = TestName1
    /\ ret.n = 104

(***************************************************************************)
(* C4: for FileInfo and FileSystemInfo, after a successful new() the size  *)
(* field of the header equals the size of the returned dynamically sized   *)
(* value, which is the raw size rounded up to the alignment and the size   *)
(* that was required of the buffer.                                        *)
(***************************************************************************)
C4_StoredSize ==
    (Succeeded /\ kind \in {"FileInfo", "FileSystemInfo"}) =>
        LET stored == IF kind = "FileInfo" THEN FileInfo_get_size(mem, ret.ptr)
                      ELSE FileSystemInfo_get_size(mem, ret.ptr)
        IN  /\ stored = size_of_val(kind, ret.meta)
            /\ stored = FinalSize
            /\ stored = new_impl_storage(kind, base, len, name).n

C4_Witness ==
    /\ pc = "done"
    /\ kind = "FileInfo"
    /\ name = TestName1
    /\ FileInfo_get_size(mem, ret.ptr) = 104
    /\ size_of_val(kind, ret.meta) = 104

(***************************************************************************)
(* C5: a buffer whose base is k bytes past an aligned address, k in        *)
(* 1..alignment-1, has its first alignment-k bytes skipped; new() succeeds *)
(* when the remaining length is >= final_size, and otherwise (also when    *)
(* the buffer is shorter than the bytes to skip) fails with                *)
(* InsufficientStorage(final_size).                                        *)
(***************************************************************************)
C5_Misaligned ==
    (pc # "call" /\ Misalign # 0) =>
        IF len >= Skip /\ len - Skip >= FinalSize
        THEN /\ pc # "failed"
             /\ info_ptr.ptr = base + alignment(kind) - Misalign
             /\ Succeeded => ret.ptr = base + alignment(kind) - Misalign
        ELSE /\ pc = "failed"
             /\ ret.tag = "Err"
             /\ ret.n = FinalSize

C5_Witness ==
    /\ pc = "done"
    /\ kind = "FileInfo"
    /\ base = 3
    /\ len = 5 + FinalSize
    /\ ret.ptr = 8

(***************************************************************************)
(* C6 as stated: every failing new() returns InsufficientStorage(n);       *)
(* retrying with the same arguments and a buffer of n bytes succeeds, and  *)
(* no buffer shorter than n bytes succeeds.                                *)
(***************************************************************************)
C6_Original ==
    /\ pc = "failed" => (ret.tag = "Err" /\ ret.n = FinalSize)
    /\ (retried /\ pc # "call") => pc # "failed"
    /\ pc \notin {"call", "failed"} => len >= FinalSize

(***************************************************************************)
(* C6 amended: every failing new() returns InsufficientStorage(n) with n   *)
(* the final size; retrying with the same arguments and a buffer of n      *)
(* bytes succeeds exactly when that buffer is correctly aligned, and no    *)
(* buffer shorter than n bytes succeeds.                                   *)
(***************************************************************************)
C6_RetryAligned ==
    /\ pc = "failed" => (ret.tag = "Err" /\ ret.n = FinalSize)
    /\ (retried /\ pc # "call") =>
        /\ len = FinalSize
        /\ (pc # "failed") <=> (Misalign = 0)
    /\ pc \notin {"call", "failed"} => len >= FinalSize

C6_Witness ==
    /\ retried
    /\ pc = "done"
    /\ Misalign = 0
    /\ len = FinalSize

(***************************************************************************)
(* C7: from_uefi() on the base address of a record built by new() yields   *)
(* the same slice metadata (name units including the terminator), the same *)
(* name and the same header field values as the reference new() returned,  *)
(* whatever bytes follow the record.                                       *)
(***************************************************************************)
C7_Reconstruct ==
    pc = "viewed" =>
        /\ view.ptr = ret.ptr
        /\ view.meta = ret.meta
        /\ view.meta = Len(name) + 1
        /\ kind = "FileInfo" =>
            /\ file_name(mem, view.ptr) = name
            /\ file_size(mem, view.ptr) = args.file_size
            /\ attribute(mem, view.ptr) = args.attribute
        /\ kind = "FileSystemInfo" =>
            /\ FileSystemInfo_volume_label(mem, view.ptr) = name
            /\ block_size(mem, view.ptr) = args.block_size
        /\ kind = "FileSystemVolumeLabel" =>
            FileSystemVolumeLabel_volume_label(mem, view.ptr) = name

C7_Witness ==
    /\ pc = "viewed"
    /\ kind = "FileSystemVolumeLabel"
    /\ name = TestName1
    /\ fill = 170
    /\ base + len > ret.ptr + FinalSize
    /\ view.meta = 10

(***************************************************************************)
(* C8 as stated: a successful new() writes only bytes within               *)
(* [region.base, region.base + final_size); every byte of the region       *)
(* outside that window keeps its value, for every base alignment.          *)
(***************************************************************************)
C8_Original ==
    Succeeded =>
        LET window == base .. (base + FinalSize - 1) IN
        /\ written \subseteq window
        /\ \A a \in (base .. (base + len - 1)) \ window : mem[a] = fill

(***************************************************************************)
(* C8 amended: a successful new() writes only bytes within                 *)
(* [aligned_base, aligned_base + final_size), where aligned_base is the    *)
(* first address >= region.base that is a multiple of the alignment; every *)
(* byte outside that window keeps its value, for every base alignment.     *)
(***************************************************************************)
C8_Frame ==
    Succeeded =>
        LET window == AlignedBase .. (AlignedBase + FinalSize - 1) IN
        /\ written \subseteq window
        /\ \A a \in Addrs \ window : mem[a] = fill

C8_Witness ==
    /\ pc = "done"
    /\ Misalign = 1
    /\ fill = 170
    /\ kind = "FileSystemVolumeLabel"
    /\ (base + FinalSize) \in written

(***************************************************************************)
(* C9: a failing new() has not invoked the header initialiser and has left *)
(* every byte unchanged; nothing is written before the checks are done; a  *)
(* succeeding new() has run the header initialiser and then copied every   *)
(* name unit and the terminator, and only then returns the reference.      *)
(***************************************************************************)
C9_NoPartial ==
    /\ pc \in {"call", "failed"} =>
        /\ events = <<>>
        /\ written = {}
        /\ \A a \in Addrs : mem[a] = fill
    /\ pc = "failed" => ret.tag = "Err"
    /\ ret.tag = "Ok" <=> Succeeded
    /\ Succeeded =>
        /\ events = <<"init", "copy">>
        /\ \A i \in 1 .. (Len(name) + 1) :
            read_unit(mem, ret.ptr + name_offset(kind) + 2 * (i - 1))
                = as_slice_with_nul(name)[i]

C9_Witness ==
    /\ retried
    /\ pc = "done"
    /\ fill = 170
    /\ events = <<"init", "copy">>
    /\ read_unit(mem, ret.ptr + name_offset(kind) + 2 * Len(name)) = 0

(***************************************************************************)
(* C10 as stated: from_uefi() scans from address + name_offset to the      *)
(* first null unit to obtain name_code_units and yields a view whose total *)
(* extent is name_offset + (name_code_units + 1) * 2 bytes.                *)
(***************************************************************************)
C10_Original ==
    pc = "viewed" =>
        LET n == ScanCount(mem, view.ptr + name_offset(kind)) IN
        /\ view.meta = n + 1
        /\ size_of_val(kind, view.meta) = name_offset(kind) + (n + 1) * 2

(***************************************************************************)
(* C10 amended: from_uefi() scans from address + name_offset to the first  *)
(* null unit to obtain name_code_units and yields a view of                *)
(* name_code_units + 1 name units, whose total extent is                   *)
(* name_offset + (name_code_units + 1) * 2 bytes rounded up to the         *)
(* alignment of the kind.                                                  *)
(***************************************************************************)
C10_ViewExtent ==
    pc = "viewed" =>
        LET n == ScanCount(mem, view.ptr + name_offset(kind)) IN
        /\ n = Len(name)
        /\ view.meta = n + 1
        /\ size_of_val(kind, view.meta)
            = RoundUp(name_offset(kind) + (n + 1) * 2, alignment(kind))

C10_Witness ==
    /\ pc = "viewed"
    /\ kind = "FileInfo"
    /\ name = <<>>
    /\ view.meta = 1
    /\ size_of_val(kind, view.meta) = 88

(***************************************************************************)
(* C11: whenever new() succeeds, the returned record starts at the first   *)
(* address >= region.base that is a multiple of the alignment of the kind, *)
(* and its whole extent [record.base, record.base + final_size) lies       *)
(* inside [region.base, region.base + region.len): the record never        *)
(* extends past the end of the buffer of the caller.                       *)
(***************************************************************************)
C11_Containment ==
    Succeeded =>
        /\ ret.ptr >= base
        /\ ret.ptr % alignment(kind) = 0
        /\ \A a \in base .. (ret.ptr - 1) : a % alignment(kind) # 0
        /\ ret.ptr + FinalSize <= base + len
        /\ ret.ptr + size_of_val(kind, ret.meta) <= base + len
        /\ written \subseteq base .. (base + len - 1)

C11_Witness ==
    /\ pc = "done"
    /\ kind = "FileSystemInfo"
    /\ name = TestName2
    /\ Misalign = 5
    /\ ret.ptr = base + 3
    /\ ret.ptr + FinalSize = base + len
====
